---- MODULE Spec2Model ----
(***************************************************************************)
(* Model of ramlfications/validate.py: the per-field validators that       *)
(* append error records to the collector owned by the root node            *)
(* (inst.errors).  A validator call is one step of the model; the values   *)
(* it receives are Python values, modelled as tagged records, and the      *)
(* Python operators the validators use on them (truthiness, ==, in,        *)
(* isinstance, str.upper, re.search) are operators on those records.       *)
(***************************************************************************)
EXTENDS Integers, Sequences, FiniteSets, TLC

VARIABLES
    py,        \* major version of the interpreter that runs the module (2 or 3)
    errors,    \* inst.errors: the list the validators append to
    pc,        \* "idle": the driver is between calls; "done": a call has ended
    call,      \* the last call: [fn, inst, attr, value] (NoCall before any)
    before,    \* inst.errors as it was when the last call began
    raised,    \* whether the last call ended by raising an exception
    rerun,     \* whether the last call repeated the call before it unchanged
    prevN,     \* (when rerun) how many records the call before it appended
    prevRaised \* (when rerun) whether the call before it raised

vars == <<py, errors, pc, call, before, raised, rerun, prevN, prevRaised>>

(***************************************************************************)
(* Bounds of the model.                                                    *)
(***************************************************************************)
MaxErrors == 2   \* validators are called while inst.errors is shorter
MaxList == 2     \* longest list value handed to a validator

(***************************************************************************)
(* Python values.  A string is the sequence of its text fragments, so that *)
(* the substring test and the regular expression have something to search. *)
(***************************************************************************)
None == [t |-> "none"]
PyStr(frags) == [t |-> "str", s |-> frags]
PyInt(n) == [t |-> "int", n |-> n]
PyFloat(n) == [t |-> "float", n |-> n]
PyBool(b) == [t |-> "bool", n |-> IF b THEN 1 ELSE 0]
PyList(items) == [t |-> "list", items |-> items]
PyDict(keys) == [t |-> "dict", keys |-> keys]
S(frag) == PyStr(<<frag>>)
\* a key a mapping does not hold
Absent == [t |-> "absent"]
\* d.get(key, default), and d.get(key) with default None
Get(entry, default) == IF entry = Absent THEN default ELSE entry

SeqUpTo(E, n) == UNION {[1..k -> E] : k \in 0..n}

\* bool(value): what `if value` and `not value` test
Truthy(v) ==
    CASE v.t = "none" -> FALSE
      [] v.t = "str" -> v.s # <<>>
      [] v.t \in {"int", "float", "bool"} -> v.n # 0
      [] v.t = "list" -> v.items # <<>>
      [] v.t = "dict" -> v.keys # <<>>
      [] OTHER -> TRUE

IsNumber(v) == v.t \in {"int", "float", "bool"}

\* a == b: numbers compare by value whatever their type (True == 1,
\* 200.0 == 200); values of different types are otherwise unequal
PyEq(a, b) ==
    IF IsNumber(a) /\ IsNumber(b) THEN a.n = b.n
    ELSE a.t = b.t /\ a = b

\* x in xs, xs a Python list (a sequence here)
PyIn(x, xs) == \E i \in 1..Len(xs) : PyEq(x, xs[i])

\* isinstance(v, int): bool is a subclass of int
IsInstanceInt(v) == v.t \in {"int", "bool"}

\* "frag" in s, for a string s
Contains(s, frag) == \E i \in 1..Len(s.s) : s.s[i] = frag

\* str.upper on one fragment
UpperFrag(f) ==
    CASE f = "http" -> "HTTP"
      [] f = "Http" -> "HTTP"
      [] f = "https" -> "HTTPS"
      [] f = "ftp" -> "FTP"
      [] OTHER -> f

\* p.upper()
Upper(p) == PyStr([i \in 1..Len(p.s) |-> UpperFrag(p.s[i])])

\* list(iterkeys(d))[0] for every d of a list of one-key mappings
FirstKeys(ds) == [i \in 1..Len(ds) |-> ds[i].keys[1]]

(***************************************************************************)
(* Error records (errors.py) and the outcome of a call.                    *)
(***************************************************************************)
Msg(text, args) == [text |-> text, args |-> args]
InvalidRootNodeError(msg) ==
    [kind |-> "InvalidRootNodeError", context |-> "", msg |-> msg]
InvalidResourceNodeError(msg) ==
    [kind |-> "InvalidResourceNodeError", context |-> "", msg |-> msg]
InvalidParameterError(msg, context) ==
    [kind |-> "InvalidParameterError", context |-> context, msg |-> msg]

\* a variant that puts the record first: inst.errors.insert(0, e)
AppendError_insert(errs, e) == [errors |-> <<e>> \o errs, raised |-> FALSE]
\* a variant that skips a record the collector already holds
AppendError_dedup(errs, e) ==
    [errors |-> IF \E i \in 1..Len(errs) : errs[i] = e
                THEN errs ELSE Append(errs, e),
     raised |-> FALSE]
\* inst.errors.append(e); return
AppendError(errs, e) == [errors |-> Append(errs, e), raised |-> FALSE]
\* the function ends without appending
Return(errs) == [errors |-> errs, raised |-> FALSE]
\* an exception leaves the function (TypeError, ...)
Raise(errs) == [errors |-> errs, raised |-> TRUE]

(***************************************************************************)
(* RAMLRoot validators.                                                    *)
(***************************************************************************)
MsgVersionTemplate ==
    "RAML File's baseUri includes {version} parameter but no version is defined."
MsgNoVersion == "RAML File does not define an API version."

\* `"{version}" in base_uri`: a TypeError when base_uri is None
root_version(errs, inst, attr, value) ==
    LET base_uri == Get(inst.raml_obj.baseUri, None)
    IN IF ~Truthy(value)
       THEN IF base_uri.t # "str" THEN Raise(errs)
            ELSE IF Contains(base_uri, "{version}")
                 THEN AppendError(errs,
                        InvalidRootNodeError(Msg(MsgVersionTemplate, <<>>)))
                 ELSE AppendError(errs,
                        InvalidRootNodeError(Msg(MsgNoVersion, <<>>)))
       ELSE Return(errs)

root_base_uri(errs, inst, attr, value) ==
    IF ~Truthy(value)
    THEN AppendError(errs, InvalidRootNodeError(
            Msg("RAML File does not define the baseUri.", <<>>)))
    ELSE Return(errs)

\* index of the first entry at or after i that the loop stops at, 0 when there
\* is none:
\* the `for ... : if ...: append; return` loops
RECURSIVE FirstFrom(_, _)
FirstFrom(stops, i) ==
    IF i > Len(stops) THEN 0
    ELSE IF stops[i] THEN i
    ELSE FirstFrom(stops, i + 1)

root_base_uri_params(errs, inst, attr, value) ==
    IF Truthy(value)
    THEN LET NoDefault(v) == ~Truthy(v.default)
             i == FirstFrom([k \in 1..Len(value.items) |->
                                NoDefault(value.items[k])], 1)
         IN IF i = 0 THEN Return(errs)
            ELSE AppendError(errs, InvalidRootNodeError(
                   Msg("The 'default' parameter is not set for base URI parameter '{0}'",
                       <<value.items[i].name>>)))
    ELSE Return(errs)

root_uri_params(errs, inst, attr, value) ==
    IF Truthy(value)
    THEN LET IsVersion(v) == PyEq(v.name, S("version"))
             i == FirstFrom([k \in 1..Len(value.items) |->
                                IsVersion(value.items[k])], 1)
         IN IF i = 0 THEN Return(errs)
            ELSE AppendError(errs, InvalidRootNodeError(
                   Msg("'version' can only be defined in baseUriParameters.", <<>>)))
    ELSE Return(errs)

root_protocols(errs, inst, attr, value) ==
    IF Truthy(value)
    THEN LET NotListed(p) == ~PyIn(Upper(p), inst.config.protocols)
             i == FirstFrom([k \in 1..Len(value.items) |->
                                NotListed(value.items[k])], 1)
         IN IF i = 0 THEN Return(errs)
            ELSE AppendError(errs, InvalidRootNodeError(
                   Msg("'{0}' not a valid protocol for a RAML-defined API.",
                       <<value.items[i]>>)))
    ELSE Return(errs)

root_title(errs, inst, attr, value) ==
    IF ~Truthy(value)
    THEN AppendError(errs, InvalidRootNodeError(
            Msg("RAML File does not define an API title.", <<>>)))
    ELSE Return(errs)

MsgDocTitle == "API Documentation requires a title."
MsgDocContent == "API Documentation requires content defined."
DocError(text) == InvalidRootNodeError(Msg(text, <<>>))

\* a variant without the `return` after the title's record
root_docs_no_return(errs, inst, attr, value) ==
    IF value.t = "list" /\ value.items # <<>>
    THEN LET d == value.items[1]
             es == (IF d.title.raw = None THEN <<DocError(MsgDocTitle)>> ELSE <<>>)
                   \o (IF d.content.raw = None THEN <<DocError(MsgDocContent)>> ELSE <<>>)
         IN [errors |-> errs \o es, raised |-> FALSE]
    ELSE [errors |-> errs, raised |-> FALSE]

root_docs(errs, inst, attr, value) ==
    IF Truthy(value)
    THEN LET Incomplete(d) == d.title.raw = None \/ d.content.raw = None
             i == FirstFrom([k \in 1..Len(value.items) |->
                                Incomplete(value.items[k])], 1)
         IN IF i = 0 THEN Return(errs)
            ELSE IF value.items[i].title.raw = None
                 THEN AppendError(errs,
                        InvalidRootNodeError(Msg(MsgDocTitle, <<>>)))
                 ELSE AppendError(errs,
                        InvalidRootNodeError(Msg(MsgDocContent, <<>>)))
    ELSE Return(errs)

root_schemas(errs, inst, attr, value) == Return(errs)

\* re.search(r"application\/[A-Za-z.-0-1]*?(json|xml)", value): the class
\* holds the letters, '.', '/', '0' and '1'; a fragment is in it when all
\* its characters are
InClass(frag) == frag \in {"application/", "text/", "json", "xml", "vnd.api", "plain"}

validate_mime_type(value) ==
    \E i \in 1..Len(value.s) : \E j \in (i + 1)..Len(value.s) :
        /\ value.s[i] = "application/"
        /\ value.s[j] \in {"json", "xml"}
        /\ \A k \in (i + 1)..(j - 1) : InClass(value.s[k])

MsgMime == "Unsupported MIME Media Type: '{0}'."

root_media_type(errs, inst, attr, value) ==
    IF Truthy(value)
    THEN LET match == validate_mime_type(value)
         IN IF ~PyIn(value, inst.config.media_types) /\ ~match
            THEN AppendError(errs, InvalidRootNodeError(Msg(MsgMime, <<value>>)))
            ELSE Return(errs)
    ELSE Return(errs)

root_resources(errs, inst, attr, value) ==
    IF ~Truthy(value)
    THEN AppendError(errs, InvalidRootNodeError(
            Msg("API does not define any resources.", <<>>)))
    ELSE Return(errs)

root_secured_by(errs, inst, attr, value) == Return(errs)

(***************************************************************************)
(* Shared validators for Resource and Resource Type nodes.                 *)
(***************************************************************************)
MsgNoTraits == "Trying to assign traits that are not definedin the root of the API."
MsgTraitUndefined ==
    "Trait '{0}' is assigned to '{1}' but is not defined in the root of the API."
MsgTraitShape ==
    "'{0}' needs to be a string referring to a trait, or a dictionary mapping parameter values to a trait"

\* v.keys()[0] gives the key under Python 2, where keys() is a list; under
\* Python 3 keys() is a view, and indexing it is a TypeError
KeysSubscriptable == py = 2

\* what the body of `for v in value` does with one entry: "next" (go on to
\* the next entry), "undefined" or "shape" (append that error and return),
\* "raise" (an exception leaves the validator)
TraitEntry(v, trait_names) ==
    CASE v.t = "dict" ->
            IF v.keys = <<>> THEN "raise"
            ELSE IF ~PyIn(v.keys[1], trait_names) THEN "undefined"
            ELSE IF ~KeysSubscriptable THEN "raise"
            ELSE IF v.keys[1].t # "str" THEN "shape"
            ELSE "next"
      [] v.t = "str" -> IF ~PyIn(v, trait_names) THEN "undefined" ELSE "next"
      [] OTHER -> "shape"

assigned_traits(errs, inst, attr, value) ==
    IF Truthy(value)
    THEN LET traits == Get(inst.root.raw.traits, PyDict(<<>>))
         IN IF ~Truthy(traits)
            THEN AppendError(errs, InvalidResourceNodeError(Msg(MsgNoTraits, <<>>)))
            ELSE LET trait_names == FirstKeys(traits.items)
                     Stops(v) == TraitEntry(v, trait_names) # "next"
                     i == IF value.t = "list"
                          THEN FirstFrom([k \in 1..Len(value.items) |->
                                            Stops(value.items[k])], 1)
                          ELSE 0
                 IN IF i = 0 THEN Return(errs)
                    ELSE LET v == value.items[i]
                             what == TraitEntry(v, trait_names)
                         IN CASE what = "raise" -> Raise(errs)
                              [] what = "undefined" ->
                                   AppendError(errs, InvalidResourceNodeError(
                                       Msg(MsgTraitUndefined, <<v, inst.path>>)))
                              [] OTHER ->
                                   AppendError(errs, InvalidResourceNodeError(
                                       Msg(MsgTraitShape, <<v>>)))
    ELSE Return(errs)

MsgTooManyTypes == "Too many resource types applied to '{0}'."
MsgTypeUndefined ==
    "Resource Type '{0}' is assigned to '{1}' but is not defined in the root of the API."

\* len(value) of a mapping or a list
PyLen(v) == IF v.t = "dict" THEN Len(v.keys) ELSE Len(v.items)

assigned_res_type(errs, inst, attr, value) ==
    IF Truthy(value)
    THEN IF value.t \in {"dict", "list"} /\ PyLen(value) > 1
         THEN AppendError(errs, InvalidResourceNodeError(
                 Msg(MsgTooManyTypes, <<inst.display_name>>)))
         ELSE LET res_types == Get(inst.root.raw.resourceTypes, PyDict(<<>>))
                  res_type_names == IF res_types.t = "dict" THEN <<>>
                                    ELSE FirstKeys(res_types.items)
                  item == CASE value.t = "list" -> value.items[1]
                            [] value.t = "dict" -> value.keys[1]
                            [] OTHER -> value
              IN IF ~PyIn(item, res_type_names)
                 THEN AppendError(errs, InvalidResourceNodeError(
                         Msg(MsgTypeUndefined, <<value, inst.display_name>>)))
                 ELSE Return(errs)
    ELSE Return(errs)

(***************************************************************************)
(* Parameter validators.                                                   *)
(***************************************************************************)
header_type(errs, inst, attr, value) ==
    IF Truthy(value) /\ ~PyIn(value, inst.config.prim_types)
    THEN AppendError(errs, InvalidParameterError(
            Msg("'{0}' is not a valid primative parameter type", <<value>>),
            "header"))
    ELSE Return(errs)

body_mime_type(errs, inst, attr, value) ==
    IF Truthy(value)
    THEN LET match == validate_mime_type(value)
         IN IF ~PyIn(value, inst.config.media_types) /\ ~match
            THEN AppendError(errs,
                    InvalidParameterError(Msg(MsgMime, <<value>>), "body"))
            ELSE Return(errs)
    ELSE Return(errs)

\* a variant that knows one form type only
form_types_multipart == <<[t |-> "str", s |-> <<"multipart/", "form-data">>]>>

form_types ==
    <<PyStr(<<"multipart/", "form-data">>),
      PyStr(<<"application/", "x-www-form-urlencoded">>)>>

MsgNotSchema == "Body must define formParameters, not schema/example."
MsgNeedsForm == "Body with mime_type '{0}' requires formParameters."

body_schema(errs, inst, attr, value) ==
    IF PyIn(inst.mime_type, form_types) /\ Truthy(value)
    THEN AppendError(errs, InvalidParameterError(Msg(MsgNotSchema, <<>>), "body"))
    ELSE Return(errs)

body_example(errs, inst, attr, value) ==
    IF PyIn(inst.mime_type, form_types) /\ Truthy(value)
    THEN AppendError(errs, InvalidParameterError(Msg(MsgNotSchema, <<>>), "body"))
    ELSE Return(errs)

body_form(errs, inst, attr, value) ==
    IF PyIn(inst.mime_type, form_types) /\ ~Truthy(value)
    THEN AppendError(errs, InvalidParameterError(
            Msg(MsgNeedsForm, <<inst.mime_type>>), "body"))
    ELSE Return(errs)

MsgCodeNotInt ==
    "Response code '{0}' must be an integer representing an HTTP code."
MsgCodeUnknown == "'{0}' not a valid HTTP response code."

\* a variant without the isinstance check
response_code_no_isinstance(errs, inst, attr, value) ==
    IF \A k \in 1..Len(inst.config.resp_codes) :
          ~(value.t \in {"int", "float", "bool"}
            /\ value.n = inst.config.resp_codes[k].n)
    THEN [errors |-> Append(errs, [kind |-> "InvalidParameterError",
                                   context |-> "response",
                                   msg |-> [text |-> MsgCodeUnknown, args |-> <<value>>]]),
          raised |-> FALSE]
    ELSE [errors |-> errs, raised |-> FALSE]

response_code(errs, inst, attr, value) ==
    IF ~IsInstanceInt(value)
    THEN AppendError(errs,
            InvalidParameterError(Msg(MsgCodeNotInt, <<value>>), "response"))
    ELSE IF ~PyIn(value, inst.config.resp_codes)
    THEN AppendError(errs,
            InvalidParameterError(Msg(MsgCodeUnknown, <<value>>), "response"))
    ELSE Return(errs)

(***************************************************************************)
(* Primitive validators.                                                   *)
(***************************************************************************)
integer_number_type_parameter(errs, inst, attr, value) ==
    IF value # None
    THEN LET param_types == <<S("integer"), S("number")>>
         IN IF ~PyIn(inst.type, param_types)
            THEN AppendError(errs, InvalidParameterError(
                    Msg("{0} must be either a number or integer to have {1} attribute set, not '{2}'.",
                        <<inst.name, attr.name, inst.type>>), "BaseParameter"))
            ELSE Return(errs)
    ELSE Return(errs)

string_type_parameter(errs, inst, attr, value) ==
    IF Truthy(value)
    THEN IF ~PyEq(inst.type, S("string"))
         THEN AppendError(errs, InvalidParameterError(
                 Msg("{0} must be a string type to have {1} attribute set, not '{2}'.",
                     <<inst.name, attr.name, inst.type>>), "BaseParameter"))
         ELSE Return(errs)
    ELSE Return(errs)

(***************************************************************************)
(* The values the validators are called with.                              *)
(***************************************************************************)
\* the Config the nodes reach as inst.config, with its four categories
DefaultConfig ==
    [protocols |-> <<S("HTTP"), S("HTTPS")>>,
     media_types |-> <<PyStr(<<"text/", "xml">>),
                       PyStr(<<"application/", "json">>)>>,
     prim_types |-> <<S("string"), S("integer"), S("number")>>,
     resp_codes |-> <<PyInt(200), PyInt(404)>>]

\* user configurations add protocols to the default ones, in any case
ProtocolLists ==
    {<<S("HTTP"), S("HTTPS")>>,
     <<S("HTTP"), S("HTTPS"), S("FTP")>>,
     <<S("HTTP"), S("HTTPS"), S("ftp")>>}
Protocols == {S("http"), S("HTTP"), S("ftp")}

BaseUris ==
    {Absent,
     PyStr(<<"https://api.foo.com/">>),
     PyStr(<<"https://api.foo.com/", "{version}">>)}
Texts == {None, PyStr(<<>>), S("v1")}

RootInst(base_uri, config) ==
    [raml_obj |-> [baseUri |-> base_uri], config |-> config]
DefaultRoot == RootInst(PyStr(<<"https://api.foo.com/">>), DefaultConfig)

\* URI parameter objects, with the attributes the validators read
UriParams ==
    {[name |-> S("version"), default |-> None],
     [name |-> S("id"), default |-> None],
     [name |-> S("id"), default |-> S("1")]}
\* documentation entries
Docs ==
    {[title |-> [raw |-> t], content |-> [raw |-> c]] :
        t \in {None, S("Home")}, c \in {None, S("Welcome")}}
MediaTypes ==
    {PyStr(<<"application/", "json">>),
     PyStr(<<"application/", "vnd.api", "xml">>),
     PyStr(<<"application/", "vnd.api", "+", "json">>),
     PyStr(<<"text/", "xml">>),
     PyStr(<<"text/", "plain">>)}

\* None, or a list of at most MaxList entries
ListsOf(E) == {None} \cup {PyList(q) : q \in SeqUpTo(E, MaxList)}

\* the root document's traits and resourceTypes: lists of one-key mappings
Declared == {Absent, PyList(<<PyDict(<<S("foo")>>)>>)}
ResourceInst(traits, res_types) ==
    [root |-> [raw |-> [traits |-> traits, resourceTypes |-> res_types]],
     path |-> S("/users"), display_name |-> S("users")]
TraitRefs ==
    {S("foo"), S("bar"), PyDict(<<S("foo")>>), PyDict(<<S("bar")>>), PyInt(7)}
AssignedTraits == ListsOf(TraitRefs) \cup {S("bar")}
AssignedTypes ==
    ListsOf({S("foo"), S("bar"), PyDict(<<S("foo")>>)})
    \cup {S("foo"), S("bar"), PyDict(<<>>), PyDict(<<S("foo")>>),
          PyDict(<<S("bar")>>), PyDict(<<S("foo"), S("bar")>>)}

ParamInst(mime_type, type) ==
    [mime_type |-> mime_type, type |-> type, name |-> S("limit"),
     config |-> DefaultConfig]
MimeTypes ==
    {None,
     PyStr(<<"application/", "json">>),
     PyStr(<<"multipart/", "form-data">>),
     PyStr(<<"application/", "x-www-form-urlencoded">>)}
DefaultParam == ParamInst(None, S("string"))
Codes ==
    {PyInt(200), PyInt(404), PyInt(999), S("200"), PyFloat(200), PyBool(TRUE),
     None}
ParamTypes == {S("integer"), S("number"), S("string")}
Numbers == {None, PyInt(0), PyInt(5)}

Attr(name) == [name |-> S(name)]
NoCall == [fn |-> "none"]

(***************************************************************************)
(* The calls.                                                              *)
(***************************************************************************)
Run(fn, errs, inst, attr, value) ==
    CASE fn = "root_version" -> root_version(errs, inst, attr, value)
      [] fn = "root_base_uri" -> root_base_uri(errs, inst, attr, value)
      [] fn = "root_base_uri_params" -> root_base_uri_params(errs, inst, attr, value)
      [] fn = "root_uri_params" -> root_uri_params(errs, inst, attr, value)
      [] fn = "root_protocols" -> root_protocols(errs, inst, attr, value)
      [] fn = "root_title" -> root_title(errs, inst, attr, value)
      [] fn = "root_docs" -> root_docs(errs, inst, attr, value)
      [] fn = "root_schemas" -> root_schemas(errs, inst, attr, value)
      [] fn = "root_media_type" -> root_media_type(errs, inst, attr, value)
      [] fn = "root_resources" -> root_resources(errs, inst, attr, value)
      [] fn = "root_secured_by" -> root_secured_by(errs, inst, attr, value)
      [] fn = "assigned_traits" -> assigned_traits(errs, inst, attr, value)
      [] fn = "assigned_res_type" -> assigned_res_type(errs, inst, attr, value)
      [] fn = "header_type" -> header_type(errs, inst, attr, value)
      [] fn = "body_mime_type" -> body_mime_type(errs, inst, attr, value)
      [] fn = "body_schema" -> body_schema(errs, inst, attr, value)
      [] fn = "body_example" -> body_example(errs, inst, attr, value)
      [] fn = "body_form" -> body_form(errs, inst, attr, value)
      [] fn = "response_code" -> response_code(errs, inst, attr, value)
      [] fn = "integer_number_type_parameter" ->
            integer_number_type_parameter(errs, inst, attr, value)
      [] fn = "string_type_parameter" ->
            string_type_parameter(errs, inst, attr, value)

\* the driver is between two calls and the collector has room
Callable == pc = "idle" /\ Len(errors) < MaxErrors

\* the driver calls validator fn with (inst, attr, value)
Invoke(fn, inst, attr, value) ==
    /\ LET r == Run(fn, errors, inst, attr, value)
       IN /\ errors' = r.errors
          /\ raised' = r.raised
    /\ pc' = "done"
    /\ call' = [fn |-> fn, inst |-> inst, attr |-> attr, value |-> value]
    /\ before' = errors
    /\ rerun' = FALSE
    /\ prevN' = 0
    /\ prevRaised' = FALSE
    /\ UNCHANGED py

RootVersion ==
    /\ Callable
    /\ \E b \in BaseUris, v \in Texts :
           Invoke("root_version", RootInst(b, DefaultConfig), Attr("version"), v)
RootBaseUri ==
    /\ Callable
    /\ \E v \in Texts : Invoke("root_base_uri", DefaultRoot, Attr("base_uri"), v)
RootBaseUriParams ==
    /\ Callable
    /\ \E v \in ListsOf(UriParams) :
           Invoke("root_base_uri_params", DefaultRoot, Attr("base_uri_params"), v)
RootUriParams ==
    /\ Callable
    /\ \E v \in ListsOf(UriParams) :
           Invoke("root_uri_params", DefaultRoot, Attr("uri_params"), v)
RootProtocols ==
    /\ Callable
    /\ \E w \in ProtocolLists, v \in ListsOf(Protocols) :
           Invoke("root_protocols",
                  RootInst(Absent, [DefaultConfig EXCEPT !.protocols = w]),
                  Attr("protocols"), v)
RootTitle ==
    /\ Callable
    /\ \E v \in Texts : Invoke("root_title", DefaultRoot, Attr("title"), v)
RootDocs ==
    /\ Callable
    /\ \E v \in ListsOf(Docs) :
           Invoke("root_docs", DefaultRoot, Attr("documentation"), v)
RootSchemas ==
    /\ Callable
    /\ \E v \in {None, PyList(<<PyDict(<<S("User")>>)>>)} :
           Invoke("root_schemas", DefaultRoot, Attr("schemas"), v)
RootMediaType ==
    /\ Callable
    /\ \E v \in MediaTypes \cup {None} :
           Invoke("root_media_type", DefaultRoot, Attr("media_type"), v)
RootResources ==
    /\ Callable
    /\ \E v \in {None, PyDict(<<>>), PyDict(<<S("/users")>>)} :
           Invoke("root_resources", DefaultRoot, Attr("resources"), v)
RootSecuredBy ==
    /\ Callable
    /\ \E v \in {None, PyList(<<S("oauth_2_0")>>)} :
           Invoke("root_secured_by", DefaultRoot, Attr("secured_by"), v)
AssignedTraitsCall ==
    /\ Callable
    /\ \E d \in Declared, v \in AssignedTraits :
           Invoke("assigned_traits", ResourceInst(d, Absent), Attr("is_"), v)
AssignedResType ==
    /\ Callable
    /\ \E d \in Declared, v \in AssignedTypes :
           Invoke("assigned_res_type", ResourceInst(Absent, d), Attr("type"), v)
HeaderType ==
    /\ Callable
    /\ \E v \in {None, S("string"), S("text")} :
           Invoke("header_type", DefaultParam, Attr("type"), v)
BodyMimeType ==
    /\ Callable
    /\ \E v \in MediaTypes \cup {None} :
           Invoke("body_mime_type", DefaultParam, Attr("mime_type"), v)
BodySchema ==
    /\ Callable
    /\ \E m \in MimeTypes, v \in Texts :
           Invoke("body_schema", ParamInst(m, None), Attr("schema"), v)
BodyExample ==
    /\ Callable
    /\ \E m \in MimeTypes, v \in Texts :
           Invoke("body_example", ParamInst(m, None), Attr("example"), v)
BodyForm ==
    /\ Callable
    /\ \E m \in MimeTypes, v \in {None, PyDict(<<>>), PyDict(<<S("name")>>)} :
           Invoke("body_form", ParamInst(m, None), Attr("form_params"), v)
ResponseCode ==
    /\ Callable
    /\ \E v \in Codes : Invoke("response_code", DefaultParam, Attr("code"), v)
IntegerNumberTypeParameter ==
    /\ Callable
    /\ \E t \in ParamTypes, v \in Numbers :
           Invoke("integer_number_type_parameter", ParamInst(None, t),
                  Attr("minimum"), v)
StringTypeParameter ==
    /\ Callable
    /\ \E t \in ParamTypes, v \in Texts :
           Invoke("string_type_parameter", ParamInst(None, t), Attr("pattern"), v)

\* the last call is made again with the same node, attribute and value
Rerun ==
    /\ pc = "done"
    /\ Len(errors) < MaxErrors
    /\ LET r == Run(call.fn, errors, call.inst, call.attr, call.value)
       IN /\ errors' = r.errors
          /\ raised' = r.raised
    /\ before' = errors
    /\ rerun' = TRUE
    /\ prevN' = Len(errors) - Len(before)
    /\ prevRaised' = raised
    /\ UNCHANGED <<py, pc, call>>

\* the validator has returned and the driver goes on to the next field; an
\* exception that left the validator has ended the construction instead
Resume ==
    /\ pc = "done"
    /\ ~raised
    /\ pc' = "idle"
    /\ call' = NoCall
    /\ before' = errors
    /\ rerun' = FALSE
    /\ prevN' = 0
    /\ prevRaised' = FALSE
    /\ UNCHANGED <<py, errors, raised>>

Init ==
    /\ py \in {2, 3}
    /\ errors = <<>>
    /\ pc = "idle"
    /\ call = NoCall
    /\ before = <<>>
    /\ raised = FALSE
    /\ rerun = FALSE
    /\ prevN = 0
    /\ prevRaised = FALSE

Next ==
    \/ RootVersion
    \/ RootBaseUri
    \/ RootBaseUriParams
    \/ RootUriParams
    \/ RootProtocols
    \/ RootTitle
    \/ RootDocs
    \/ RootSchemas
    \/ RootMediaType
    \/ RootResources
    \/ RootSecuredBy
    \/ AssignedTraitsCall
    \/ AssignedResType
    \/ HeaderType
    \/ BodyMimeType
    \/ BodySchema
    \/ BodyExample
    \/ BodyForm
    \/ ResponseCode
    \/ IntegerNumberTypeParameter
    \/ StringTypeParameter
    \/ Rerun
    \/ Resume

Spec == Init /\ [][Next]_vars

(***************************************************************************)
(* Properties.                                                             *)
(***************************************************************************)
IsPrefix(a, b) == Len(a) <= Len(b) /\ SubSeq(b, 1, Len(a)) = a
\* the records the last call appended
Appended == SubSeq(errors, Len(before) + 1, Len(errors))
\* the last call was to validator fn and has ended
Ended(fn) == pc = "done" /\ call.fn = fn
\* i is the first index that the sequence of truth values bad holds at
IsFirst(i, bad) ==
    /\ i \in 1..Len(bad)
    /\ bad[i]
    /\ \A j \in 1..(i - 1) : ~bad[j]
\* the text fragments of a and b are the same up to letter case
EqIgnoreCase(a, b) == Upper(a) = Upper(b)
\* the names a list of one-key mappings declares
DeclaredNames(d) ==
    IF d = Absent THEN {} ELSE {d.items[i].keys[1] : i \in 1..Len(d.items)}
\* the name a trait or resource type reference refers to
RefName(ref) == IF ref.t = "dict" THEN ref.keys[1] ELSE ref
IsRef(ref) == ref.t = "str" \/ (ref.t = "dict" /\ Len(ref.keys) = 1)

\* C1: every call of a validator returns normally: no exception leaves it.
C1_NeverRaises == pc = "done" => ~raised

\* C2: a call appends at most one record, and the record is the one of the
\* first violated rule in check order: of the first violating entry of a
\* list, of the title before the content of a documentation entry, of the
\* integer check before the whitelist, of the count before the name.
C2_AtMostOneError ==
    pc = "done" =>
      /\ IsPrefix(before, errors)
      /\ Len(errors) - Len(before) \in {0, 1}
      /\ Len(errors) > Len(before) =>
           LET e == errors[Len(errors)]
               value == call.value
               inst == call.inst
               Where(Bad(_)) == [k \in 1..Len(value.items) |-> Bad(value.items[k])]
           IN /\ call.fn = "root_protocols" =>
                   LET Bad(p) == \A k \in 1..Len(inst.config.protocols) :
                                    Upper(p) # inst.config.protocols[k]
                   IN \E i \in 1..Len(value.items) :
                        IsFirst(i, Where(Bad)) /\ e.msg.args = <<value.items[i]>>
              /\ call.fn = "root_base_uri_params" =>
                   LET Bad(v) == v.default \in {None, PyStr(<<>>)}
                   IN \E i \in 1..Len(value.items) :
                        IsFirst(i, Where(Bad)) /\ e.msg.args = <<value.items[i].name>>
              /\ call.fn = "root_docs" =>
                   LET Bad(d) == d.title.raw = None \/ d.content.raw = None
                   IN \E i \in 1..Len(value.items) :
                        /\ IsFirst(i, Where(Bad))
                        /\ e.msg.text = IF value.items[i].title.raw = None
                                        THEN MsgDocTitle ELSE MsgDocContent
              /\ (call.fn = "assigned_traits" /\ e.msg.text # MsgNoTraits) =>
                   LET names == DeclaredNames(inst.root.raw.traits)
                       Bad(v) == ~(IsRef(v) /\ RefName(v) \in names)
                   IN \E i \in 1..Len(value.items) :
                        IsFirst(i, Where(Bad)) /\ e.msg.args[1] = value.items[i]
              /\ (call.fn = "response_code" /\ value.t \notin {"int", "bool"}) =>
                   e.msg.text = MsgCodeNotInt
              /\ (call.fn = "assigned_res_type" /\ value.t \in {"dict", "list"}
                    /\ PyLen(value) > 1) =>
                   e.msg.text = MsgTooManyTypes

\* a documentation list whose two entries both lack title and content got
\* one record
C2_Witness ==
    /\ Ended("root_docs")
    /\ call.value.t = "list"
    /\ Len(call.value.items) = 2
    /\ \A i \in 1..2 : call.value.items[i].title.raw = None
                       /\ call.value.items[i].content.raw = None
    /\ Len(errors) = Len(before) + 1
    /\ before # <<>>

\* C3: the collector is append-only: what it held before a step is a prefix
\* of what it holds after it.
C3_AppendOnly == [][IsPrefix(errors, errors')]_vars

\* a call appended to a collector that already held a different record
C3_Witness ==
    /\ pc = "done"
    /\ Len(before) = 1
    /\ Len(errors) = 2
    /\ errors[1] # errors[2]

\* C4: root_version appends the template message when the baseUri holds
\* the {version} placeholder and the version is empty, the no-version
\* message when the placeholder is absent (the baseUri undefined included)
\* and the version is empty, and nothing when the version is not empty.
C4_VersionMatrix ==
    Ended("root_version") =>
      LET b == call.inst.raml_obj.baseUri
          placeholder == b # Absent /\ (\E i \in 1..Len(b.s) : b.s[i] = "{version}")
          empty == call.value \in {None, PyStr(<<>>)}
      IN /\ (empty /\ placeholder) =>
              Appended = <<InvalidRootNodeError(Msg(MsgVersionTemplate, <<>>))>>
         /\ (empty /\ ~placeholder) =>
              Appended = <<InvalidRootNodeError(Msg(MsgNoVersion, <<>>))>>
         /\ ~empty => Appended = <<>>

\* C5: assigned_traits, for a non-empty list of references: nothing is
\* appended when every reference resolves to a declared trait; otherwise
\* exactly one InvalidResourceNodeError is appended, for the first entry
\* that is unresolved or malformed.
C5_TraitsResolve ==
    (Ended("assigned_traits") /\ call.value.t = "list" /\ call.value.items # <<>>) =>
      LET names == DeclaredNames(call.inst.root.raw.traits)
          items == call.value.items
          Bad(v) == ~(IsRef(v) /\ RefName(v) \in names)
      IN IF \A i \in 1..Len(items) : ~Bad(items[i])
         THEN Appended = <<>>
         ELSE /\ Len(Appended) = 1
              /\ Appended[1].kind = "InvalidResourceNodeError"
              /\ Appended[1].msg.args # <<>> =>
                   \E i \in 1..Len(items) :
                      /\ IsFirst(i, [k \in 1..Len(items) |-> Bad(items[k])])
                      /\ Appended[1].msg.args[1] = items[i]

\* C6: assigned_res_type: nothing for an empty value; "Too many resource
\* types" when more than one type is assigned; otherwise one error exactly
\* when the assigned type's name is not declared in the root.
C6_ResTypeResolves ==
    Ended("assigned_res_type") =>
      LET value == call.value
          names == DeclaredNames(call.inst.root.raw.resourceTypes)
          refs == CASE value.t = "list" -> value.items
                    [] value.t = "dict" ->
                         [i \in 1..Len(value.keys) |-> value.keys[i]]
                    [] value.t = "str" -> IF value.s = <<>> THEN <<>> ELSE <<value>>
                    [] OTHER -> <<>>
      IN CASE refs = <<>> -> Appended = <<>>
           [] Len(refs) > 1 ->
                /\ Len(Appended) = 1
                /\ Appended[1].kind = "InvalidResourceNodeError"
                /\ Appended[1].msg.text = MsgTooManyTypes
           [] OTHER ->
                IF RefName(refs[1]) \in names
                THEN Appended = <<>>
                ELSE /\ Len(Appended) = 1
                     /\ Appended[1].kind = "InvalidResourceNodeError"
                     /\ Appended[1].msg.text = MsgTypeUndefined

\* C7: root_protocols appends one InvalidRootNodeError exactly when some
\* listed protocol equals no whitelist entry ignoring letter case.
C7_ProtocolsIgnoreCase ==
    (Ended("root_protocols") /\ call.value # None) =>
      LET whitelist == call.inst.config.protocols
          items == call.value.items
          Listed(p) == \E k \in 1..Len(whitelist) : EqIgnoreCase(p, whitelist[k])
      IN IF \A i \in 1..Len(items) : Listed(items[i])
         THEN Appended = <<>>
         ELSE Len(Appended) = 1 /\ Appended[1].kind = "InvalidRootNodeError"

\* C8: response_code appends one InvalidParameterError("response") for a
\* value that is not an integer (the integer message, whatever the
\* whitelist holds), one for an integer outside the whitelist, and nothing
\* for an integer in the whitelist.
C8_ResponseCode ==
    Ended("response_code") =>
      LET value == call.value
          codes == {call.inst.config.resp_codes[k].n :
                       k \in 1..Len(call.inst.config.resp_codes)}
      IN /\ ~raised
         /\ (value.t = "int" /\ value.n \in codes) => Appended = <<>>
         /\ ~(value.t = "int" /\ value.n \in codes) =>
              /\ Len(Appended) = 1
              /\ Appended[1].kind = "InvalidParameterError"
              /\ Appended[1].context = "response"
         /\ value.t \notin {"int", "bool"} =>
              Appended[1].msg = Msg(MsgCodeNotInt, <<value>>)
         /\ value.t = "int" /\ value.n \notin codes =>
              Appended[1].msg = Msg(MsgCodeUnknown, <<value>>)

\* the float 200.0, equal to the whitelisted 200, got the integer message
C8_Witness ==
    /\ Ended("response_code")
    /\ call.value = PyFloat(200)
    /\ PyInt(200) \in {call.inst.config.resp_codes[k] :
                          k \in 1..Len(call.inst.config.resp_codes)}
    /\ Len(Appended) = 1
    /\ Appended[1].msg.text = MsgCodeNotInt

\* C9: with a form-encoded mimeType, body_form appends one
\* InvalidParameterError("body") when formParameters is unset and nothing
\* when it is set, and body_schema and body_example append one when their
\* value is set and nothing when it is unset; with any other mimeType none
\* of the three appends.
C9_FormBody ==
    (pc = "done" /\ call.fn \in {"body_form", "body_schema", "body_example"}) =>
      LET mime == call.inst.mime_type
          form == mime \in {PyStr(<<"multipart/", "form-data">>),
                            PyStr(<<"application/", "x-www-form-urlencoded">>)}
          set == call.value \notin {None, PyStr(<<>>), PyDict(<<>>)}
          fails == form /\ IF call.fn = "body_form" THEN ~set ELSE set
      IN /\ ~raised
         /\ fails => /\ Len(Appended) = 1
                     /\ Appended[1].kind = "InvalidParameterError"
                     /\ Appended[1].context = "body"
         /\ ~fails => Appended = <<>>

\* a url-encoded form body without formParameters got its record
C9_Witness ==
    /\ Ended("body_form")
    /\ call.inst.mime_type = PyStr(<<"application/", "x-www-form-urlencoded">>)
    /\ call.value = None
    /\ Len(Appended) = 1

\* C10: a call repeated with the same node, attribute and value ends as the
\* call before it did and appends what that call appended, whatever the
\* collector holds.
C10_Idempotent ==
    (pc = "done" /\ rerun) =>
      /\ raised = prevRaised
      /\ Len(Appended) = prevN
      /\ prevN = 1 => Appended[1] = before[Len(before)]

\* the collector holds the same record twice, from a call and its repeat
C10_Witness ==
    /\ pc = "done"
    /\ rerun
    /\ prevN = 1
    /\ Len(errors) = 2
    /\ errors[1] = errors[2]

====
